---- MODULE Spec2Model ----
(***************************************************************************)
(* FROST: the text verdict endpoint (backend/ml_api/main.py,               *)
(* check_fake_news) and the image forensic scorer                          *)
(* (backend/deepfake_detector.py, analyze_image).                          *)
(* The handlers of the main API (backend/main.py): deepfake_check and      *)
(* fake_news_check.                                                        *)
(*                                                                         *)
(* Numbers.  Scores, weights and probabilities are kept in hundredths      *)
(* (0.45 is 45, 0.6 is 60), so that confidence = round(final_score*100, 2) *)
(* is the score itself.  Similarities are kept in ten-thousandths          *)
(* (0.25 is 2500), so that round(sim*100, 2) is the similarity itself.     *)
(* idf values are kept in thousandths.                                     *)
(*                                                                         *)
(* Text.  A text is a sequence of words: " " stands for white space,       *)
(* "the" for an English stop word, and the words of Lexicon for the terms  *)
(* the vectorizer keeps.                                                   *)
(***************************************************************************)
EXTENDS Integers, Sequences, FiniteSets

(***************************************************************************)
(* Bounds and program constants                                            *)
(***************************************************************************)
\* Number of request handlers that may run at the same time (FastAPI runs
\* a plain "def" endpoint in a thread pool).
NThreads == 2

NYT_WEIGHT == 45
GUARDIAN_WEIGHT == 35
NYT_MAX_DOCS == 3
GUARDIAN_PAGE_SIZE == 3
SIM_GATE == 2500
ML_BONUS == 20
ML_BONUS_THRESHOLD == 70
REAL_THRESHOLD == 60
UNCERTAIN_THRESHOLD == 35

Threads == 1..NThreads

\* The terms the similarity vectorizer keeps, in alphabetical order (the
\* order of the feature indices of vocabulary_).
Lexicon == <<"fire", "flood", "storm">>

StopWords == {"the"}
WhiteSpace == {" "}

Range(s) == {s[i] : i \in 1..Len(s)}

Max(a, b) == IF a >= b THEN a ELSE b

Min(a, b) == IF a <= b THEN a ELSE b

RECURSIVE SumSeq(_)
SumSeq(s) == IF s = <<>> THEN 0 ELSE s[1] + SumSeq(Tail(s))

RECURSIVE MaxSeq(_)
MaxSeq(s) == IF Len(s) = 1 THEN s[1] ELSE Max(s[1], MaxSeq(Tail(s)))

\* The first n elements of s: s[:n].
Prefix(s, n) == SubSeq(s, 1, Min(n, Len(s)))

(***************************************************************************)
(* Resolved content                                                        *)
(***************************************************************************)
\* content.strip() is empty: every character is white space.
IsBlankNoStrip(content) == content = <<>>

IsBlank(content) == \A i \in 1..Len(content) : content[i] \in WhiteSpace

\* content = data.text or ""; if data.url: content = scrape_article(url).
\* A missing text (None) and an empty one both resolve to the empty text; an
\* empty url is no url; page is what scrape_article returns for the url,
\* the empty text when the download raised.
ResolveContent(r) == IF r.url # "" THEN r.page ELSE r.text

(***************************************************************************)
(* Evidence sources                                                        *)
(***************************************************************************)
\* What a source does with one query:
\*   "ok"          a 2xx JSON answer listing docs (titles);
\*   "error_json"  a non-2xx answer whose body is JSON without "response";
\*   "error_html"  a non-2xx answer whose body is not JSON: .json() raises;
\*   "unreachable" the connection fails: requests.get raises;
\*   "malformed"   a 2xx JSON answer with an item missing its headline/title
\*                 field: the item's lookup raises KeyError;
\*   "stalled"     the server accepts the connection and never answers:
\*                 requests.get is called without a timeout and blocks.
RaisingKinds == {"error_html", "unreachable", "malformed"}

FailureKinds == RaisingKinds \cup {"error_json", "stalled"}

Item(source, weight, title) == [source |-> source, weight |-> weight, title |-> title]

Fetched(items) == [outcome |-> "returned", items |-> items]

FetchFailed(how) == [outcome |-> how, items |-> <<>>]

\* One call of a source: no key, no query; a raising answer propagates, a
\* JSON answer without docs gives the empty list, and at most cap docs are
\* kept (NYTimes: docs[:3]; the Guardian is asked for page-size 3).
Fetch(key, answer, source, weight, cap) ==
    IF ~key THEN Fetched(<<>>)
    ELSE IF answer.kind \in RaisingKinds THEN FetchFailed("raised")
    ELSE IF answer.kind = "stalled" THEN FetchFailed("blocked")
    ELSE IF answer.kind = "error_json" THEN Fetched(<<>>)
    ELSE LET docs == Prefix(answer.docs, cap)
         IN  Fetched([i \in 1..Len(docs) |-> Item(source, weight, docs[i])])

fetch_nytimes(key, answer) == Fetch(key, answer, "NYTimes", NYT_WEIGHT, NYT_MAX_DOCS)

fetch_guardian(key, answer) ==
    Fetch(key, answer, "Guardian", GUARDIAN_WEIGHT, GUARDIAN_PAGE_SIZE)

(***************************************************************************)
(* TF-IDF (sklearn's TfidfVectorizer(stop_words="english"))                *)
(***************************************************************************)
\* The analyzer: the words of a text that are neither white space nor stop
\* words.
IsTerm(w) == w \notin WhiteSpace \cup StopWords

Tokenize(text) == SelectSeq(text, IsTerm)

Count(w, s) == Cardinality({i \in 1..Len(s) : s[i] = w})

\* CountVectorizer's vocabulary of a list of documents, sorted.
Vocabulary(docs) ==
    LET Used(w) == \E d \in 1..Len(docs) : w \in Range(Tokenize(docs[d]))
    IN  SelectSeq(Lexicon, Used)

\* CountVectorizer's term-count matrix: one row per document, one column per
\* vocabulary entry.
CountMatrix(docs, vocab) ==
    [d \in 1..Len(docs) |-> [j \in 1..Len(vocab) |-> Count(vocab[j], Tokenize(docs[d]))]]

\* 1000 * ln(k), k = 1..10.
LnMilli == <<0, 693, 1099, 1386, 1609, 1792, 1946, 2079, 2197, 2303>>

\* TfidfTransformer.fit with smooth_idf: idf = ln((1 + n) / (1 + df)) + 1.
IdfOf(counts) ==
    LET n == Len(counts)
        df(j) == Cardinality({d \in 1..n : counts[d][j] > 0})
    IN  [j \in 1..Len(counts[1]) |-> LnMilli[1 + n] - LnMilli[1 + df(j)] + 1000]

RECURSIVE SqrtBetween(_, _, _)
SqrtBetween(n, lo, hi) ==
    IF lo >= hi THEN lo
    ELSE LET mid == (lo + hi + 1) \div 2
         IN  IF mid * mid <= n THEN SqrtBetween(n, mid, hi)
             ELSE SqrtBetween(n, lo, mid - 1)

\* floor(sqrt(n)), 0 <= n < 46340^2.
ISqrt(n) == SqrtBetween(n, 0, 46339)

\* One row scaled by idf and L2-normalised (norm="l2"), in ten-thousandths;
\* a zero row stays zero.
TfidfRow(row, idf) ==
    LET w == [j \in 1..Len(row) |-> row[j] * idf[j]]
        norm == ISqrt(SumSeq([j \in 1..Len(row) |-> w[j] * w[j]]))
    IN  [j \in 1..Len(row) |-> IF norm = 0 THEN 0 ELSE (w[j] * 10000) \div norm]

\* TfidfTransformer.transform.
TfidfRows(counts, idf) == [d \in 1..Len(counts) |-> TfidfRow(counts[d], idf)]

\* cosine_similarity of two rows transform has normalised: their dot product.
Cosine(a, b) == SumSeq([j \in 1..Len(a) |-> a[j] * b[j]]) \div 10000

\* max(cosine_similarity(vectors[0:1], vectors[1:])[0]).
MaxSimilarity(vectors) ==
    MaxSeq([h \in 1..(Len(vectors) - 1) |-> Cosine(vectors[1], vectors[h + 1])])

\* [text] + [h["title"] for h in headlines]
Documents(text, headlines) == <<text>> \o [h \in 1..Len(headlines) |-> headlines[h].title]

(***************************************************************************)
(* Fusion (check_fake_news, after the evidence is known)                   *)
(***************************************************************************)
\* model.predict_proba(vec)[0]: the probabilities of the classes 0 (fake)
\* and 1 (real), as train_model.py labels them.
PredictProba(r) == <<100 - r.p_real, r.p_real>>

\* model.predict_proba(vec)[0].max()
MlProb(r) == MaxSeq(PredictProba(r))

Weights(evidence) == [e \in 1..Len(evidence) |-> evidence[e].weight]

WeightScoreUngated(evidence, similarity) == SumSeq(Weights(evidence))

\* sum(e["weight"] for e in evidence if sim > 0.25)
WeightScore(evidence, similarity) ==
    SumSeq(Weights(SelectSeq(evidence, LAMBDA e : similarity > SIM_GATE)))

\* 0.2 if ml_prob > 0.7 else 0
MlBonus(prob) == IF prob > ML_BONUS_THRESHOLD THEN ML_BONUS ELSE 0

FinalScore(evidence, similarity, prob) == WeightScore(evidence, similarity) + MlBonus(prob)

VerdictStrict(score) ==
    IF score > REAL_THRESHOLD THEN "REAL"
    ELSE IF score > UNCERTAIN_THRESHOLD THEN "UNCERTAIN"
    ELSE "FAKE"

Verdict(score) ==
    IF score >= REAL_THRESHOLD THEN "REAL"
    ELSE IF score >= UNCERTAIN_THRESHOLD THEN "UNCERTAIN"
    ELSE "FAKE"

\* The JSON body of a 200 answer.  The UNKNOWN body carries the verdict and
\* the confidence only: its other two fields are written empty here.
Body(verdict, confidence, similarity, evidence) ==
    [status |-> "ok", verdict |-> verdict, confidence |-> confidence,
     headline_similarity |-> similarity, evidence |-> evidence]

UnknownBody == Body("UNKNOWN", 0, 0, <<>>)

\* An exception that leaves check_fake_news: the caller gets a 500.
ErrorBody == [status |-> "error", verdict |-> "", confidence |-> 0,
              headline_similarity |-> 0, evidence |-> <<>>]

NoBody == [status |-> "none", verdict |-> "", confidence |-> 0,
           headline_similarity |-> 0, evidence |-> <<>>]

VerdictBody(evidence, similarity, prob) ==
    Body(Verdict(FinalScore(evidence, similarity, prob)),
         FinalScore(evidence, similarity, prob), similarity, evidence)

(***************************************************************************)
(* Requests                                                                *)
(***************************************************************************)
Ok(docs) == [kind |-> "ok", docs |-> docs]

Failure(kind) == [kind |-> kind, docs |-> <<>>]

Request(text, url, page, p_real, nyt, guardian) ==
    [text |-> text, url |-> url, page |-> page, p_real |-> p_real,
     nyt |-> nyt, guardian |-> guardian]

NoRequest == Request(<<>>, "", <<>>, 0, Ok(<<>>), Ok(<<>>))

Fire == <<"fire">>
Flood == <<"flood">>
The == <<"the">>

\* The requests one handler is tried on: every number of items from each
\* source, every failure of each source, texts that are blank, only stop
\* words, close to the headlines and far from them.
AllTexts ==
    {<<>>, <<" ">>, The, Fire, <<"fire", "flood">>, <<"fire", "flood", "flood">>,
     <<" ", "storm", " ">>}

AllPages == {<<>>, <<" ", " ">>, <<"fire", "flood">>}

AllProbabilities == {10, 30, 70, 71}

AllNYTAnswers ==
    {Ok(d) : d \in {<<>>, <<Fire>>, <<Flood>>, <<Fire, Fire>>, <<Fire, Fire, Fire>>,
                    <<Fire, Fire, Fire, Flood>>, <<The>>}}
    \cup {Failure(k) : k \in FailureKinds}

AllGuardianAnswers ==
    {Ok(d) : d \in {<<>>, <<Fire>>, <<Flood>>, <<Fire, Fire>>, <<Fire, Fire, Fire>>}}
    \cup {Failure(k) : k \in FailureKinds}

AllRequests ==
    {Request(text, "", <<>>, p, n, g) :
        text \in AllTexts, p \in AllProbabilities,
        n \in AllNYTAnswers, g \in AllGuardianAnswers}
    \cup
    {Request(text, "http://news", page, p, n, g) :
        text \in {<<>>, Fire}, page \in AllPages, p \in AllProbabilities,
        n \in AllNYTAnswers, g \in AllGuardianAnswers}

\* The requests the handlers are tried on together: both sources answer,
\* and the vocabularies and document frequencies differ from one request to
\* the other.
SharedRequests ==
    {Request(text, "", <<>>, 71, Ok(<<Fire>>), g) :
        text \in {Fire, <<"fire", "flood">>}, g \in {Ok(<<>>), Ok(<<Flood>>)}}

(***************************************************************************)
(* State                                                                   *)
(***************************************************************************)
VARIABLES
    NYT_API_KEY,        \* the key is set in the environment
    GUARDIAN_API_KEY,
    vocabulary_,        \* similarity_vectorizer.vocabulary_, <<>> before a fit
    idf_,               \* similarity_vectorizer._tfidf.idf_, <<>> before a fit
    pc,                 \* where each handler is
    req,                \* the request each handler was given
    frame,              \* the handler's locals: content, ml_prob, evidence,
                        \* X (the count matrix inside fit_transform), sim,
                        \* weight_score, final_score
    response,           \* what each handler answered
    image,              \* the forensic signals of the image last analysed
    image_result,       \* what analyze_image returned for it
    upload,             \* the upload deepfake_check was given
    news,               \* the input fake_news_check was given
    reply,              \* what deepfake_check or fake_news_check answered
    calls,              \* the collaborators that handler invoked
    scan_history        \* the rows of the scan_history table

vars == <<NYT_API_KEY, GUARDIAN_API_KEY, vocabulary_, idf_, pc, req, frame,
          response, image, image_result, upload, news, reply, calls, scan_history>>

shared == <<NYT_API_KEY, GUARDIAN_API_KEY>>

image_vars == <<image, image_result>>

api_vars == <<upload, news, reply, calls, scan_history>>

\* The answer of the main API: the HTTP status, the detail of an
\* HTTPException, and the verdict and confidence of a 200.
Reply(status, detail, verdict, confidence) ==
    [status |-> status, detail |-> detail, verdict |-> verdict, confidence |-> confidence]

Rejected(status, detail) == Reply(status, detail, "", 0)

NoReply == Reply(0, "", "", 0)

NoUpload == [content_type |-> "", size |-> 0, readable |-> TRUE, decodable |-> TRUE,
             signals |-> [blur_score |-> 0, noise |-> 0, width |-> 0, height |-> 0],
             stored |-> TRUE]

NoNews == [text |-> <<>>, url |-> "", page |-> <<>>, abstract |-> <<>>,
           p_real |-> 0, raises |-> FALSE, stored |-> TRUE]

Frame(content, ml_prob, evidence, X, sim, weight_score, final_score) ==
    [content |-> content, ml_prob |-> ml_prob, evidence |-> evidence, X |-> X,
     sim |-> sim, weight_score |-> weight_score, final_score |-> final_score]

NoFrame == Frame(<<>>, 0, <<>>, <<>>, 0, 0, 0)

NoImage == [blur_score |-> 0, noise |-> 0, width |-> 0, height |-> 0]

NoImageResult == [verdict |-> "", confidence |-> 0]

Init ==
    /\ NYT_API_KEY \in BOOLEAN
    /\ GUARDIAN_API_KEY \in BOOLEAN
    /\ vocabulary_ = <<>>
    /\ idf_ = <<>>
    /\ pc = [t \in Threads |-> "idle"]
    /\ req = [t \in Threads |-> NoRequest]
    /\ frame = [t \in Threads |-> NoFrame]
    /\ response = [t \in Threads |-> NoBody]
    /\ image = NoImage
    /\ image_result = NoImageResult
    /\ upload = NoUpload
    /\ news = NoNews
    /\ reply = NoReply
    /\ calls = {}
    /\ scan_history = <<>>

(***************************************************************************)
(* check_fake_news                                                         *)
(***************************************************************************)
\* The handler ends: it answers body (pc "done"), or it blocks for ever in
\* requests.get (pc "blocked").
Finish(t, r, where, f, body) ==
    /\ pc' = [pc EXCEPT ![t] = where]
    /\ req' = [req EXCEPT ![t] = r]
    /\ frame' = [frame EXCEPT ![t] = f]
    /\ response' = [response EXCEPT ![t] = body]

\* Lines 142-161 once sim is known.
Fused(f, similarity) ==
    [f EXCEPT !.sim = similarity,
              !.weight_score = WeightScore(f.evidence, similarity),
              !.final_score = FinalScore(f.evidence, similarity, f.ml_prob)]

\* Lines 126-142, up to the call of fit_transform: resolve the content,
\* classify it, query the two sources in turn.
Start(t, requests) ==
    /\ pc[t] \in {"idle", "done"}
    /\ \E r \in requests :
        LET c == ResolveContent(r)
            nyt == fetch_nytimes(NYT_API_KEY, r.nyt)
            gdn == fetch_guardian(GUARDIAN_API_KEY, r.guardian)
            classified == Frame(c, MlProb(r), <<>>, <<>>, 0, 0, 0)
            ev == nyt.items \o gdn.items
            f == [classified EXCEPT !.evidence = ev]
        IN  IF IsBlank(c)
              THEN Finish(t, r, "done", Frame(c, 0, <<>>, <<>>, 0, 0, 0), UnknownBody)
            ELSE IF nyt.outcome = "blocked"
              THEN Finish(t, r, "blocked", classified, NoBody)
            ELSE IF nyt.outcome = "raised"
              THEN Finish(t, r, "done", classified, ErrorBody)
            ELSE IF gdn.outcome = "blocked"
              THEN Finish(t, r, "blocked", classified, NoBody)
            ELSE IF gdn.outcome = "raised"
              THEN Finish(t, r, "done", classified, ErrorBody)
            ELSE IF ev = <<>>
              \* similarity_score: "if not headlines: return 0"
              THEN Finish(t, r, "done", Fused(f, 0), VerdictBody(ev, 0, f.ml_prob))
            ELSE Finish(t, r, "fit_count", f, NoBody)
    /\ UNCHANGED <<shared, vocabulary_, idf_, image_vars, api_vars>>

\* CountFit as it would be were the vocabulary fitted once and kept: a later
\* call counts its documents against the vocabulary of the first.
CountFitOnce(t) ==
    /\ pc[t] = "fit_count"
    /\ LET docs == Documents(frame[t].content, frame[t].evidence)
           vocab == IF vocabulary_ = <<>> THEN Vocabulary(docs) ELSE vocabulary_
       IN  IF vocab = <<>>
             THEN /\ Finish(t, req[t], "done", frame[t], ErrorBody)
                  /\ UNCHANGED vocabulary_
             ELSE /\ vocabulary_' = vocab
                  /\ Finish(t, req[t], "fit_idf",
                            [frame[t] EXCEPT !.X = CountMatrix(docs, vocab)], NoBody)
    /\ idf_' = <<>>
    /\ UNCHANGED <<shared, image_vars, api_vars>>

\* fit_transform, first part: a new TfidfTransformer replaces _tfidf, then
\* CountVectorizer.fit_transform builds the vocabulary of this call's
\* documents (ValueError "empty vocabulary" when no document has a term),
\* stores it and returns the count matrix.
CountFit(t) ==
    /\ pc[t] = "fit_count"
    /\ LET docs == Documents(frame[t].content, frame[t].evidence)
           vocab == Vocabulary(docs)
       IN  IF vocab = <<>>
             THEN /\ Finish(t, req[t], "done", frame[t], ErrorBody)
                  /\ UNCHANGED vocabulary_
             ELSE /\ vocabulary_' = vocab
                  /\ Finish(t, req[t], "fit_idf",
                            [frame[t] EXCEPT !.X = CountMatrix(docs, vocab)], NoBody)
    /\ idf_' = <<>>
    /\ UNCHANGED <<shared, image_vars, api_vars>>

\* fit_transform, second part: self._tfidf.fit(X).
TfidfFit(t) ==
    /\ pc[t] = "fit_idf"
    /\ idf_' = IdfOf(frame[t].X)
    /\ pc' = [pc EXCEPT ![t] = "transform"]
    /\ UNCHANGED <<shared, vocabulary_, req, frame, response, image_vars, api_vars>>

\* fit_transform, last part: self._tfidf.transform(X) with the idf_ that
\* _tfidf holds now (NotFittedError when it holds none, ValueError when its
\* length is not X's number of columns); then lines 117-161.
Transform(t) ==
    /\ pc[t] = "transform"
    /\ IF idf_ = <<>> \/ Len(idf_) # Len(frame[t].X[1])
         THEN Finish(t, req[t], "done", frame[t], ErrorBody)
         ELSE LET s == MaxSimilarity(TfidfRows(frame[t].X, idf_))
              IN  Finish(t, req[t], "done", Fused(frame[t], s),
                         VerdictBody(frame[t].evidence, s, frame[t].ml_prob))
    /\ UNCHANGED <<shared, vocabulary_, idf_, image_vars, api_vars>>

\* The handlers run together.
Next ==
    \E t \in Threads :
        \/ Start(t, SharedRequests)
        \/ CountFit(t)
        \/ TfidfFit(t)
        \/ Transform(t)

\* Both sources are configured.
InitServing == Init /\ NYT_API_KEY /\ GUARDIAN_API_KEY

Spec == InitServing /\ [][Next]_vars

InFlight(t) == pc[t] \in {"fit_count", "fit_idf", "transform"}

\* The handlers run one after the other: a request starts when no other is
\* in flight.
NextSeq ==
    \E t \in Threads :
        \/ (\A u \in Threads : ~InFlight(u)) /\ Start(t, SharedRequests)
        \/ CountFit(t)
        \/ TfidfFit(t)
        \/ Transform(t)

SpecSeq == InitServing /\ [][NextSeq]_vars

\* One handler, its first request, any request.
NextRequest ==
    \/ pc[1] = "idle" /\ Start(1, AllRequests)
    \/ CountFit(1)
    \/ TfidfFit(1)
    \/ Transform(1)

SpecRequest == Init /\ [][NextRequest]_vars

(***************************************************************************)
(* analyze_image                                                           *)
(***************************************************************************)
BLUR_NUMERATOR == 1000
CONFIDENCE_DIVISOR == 20
MAX_CONFIDENCE == 100
FAKE_CUTOFF == 60

\* The confidence without the division by 20.
ConfidenceUndivided(s) ==
    Min(MAX_CONFIDENCE, s.noise + BLUR_NUMERATOR \div (s.blur_score + 1))

\* min(100, int((noise + 1000 / (blur_score + 1)) / 20)), for whole
\* blur_score >= 0 and noise >= 0: the quotient is not negative, so int()
\* is the floor, and the two divisions are one.
Confidence(s) ==
    Min(MAX_CONFIDENCE,
        (s.noise * (s.blur_score + 1) + BLUR_NUMERATOR)
            \div (CONFIDENCE_DIVISOR * (s.blur_score + 1)))

\* "FAKE" if confidence > 60 else "REAL"
ImageVerdict(confidence) == IF confidence > FAKE_CUTOFF THEN "FAKE" ELSE "REAL"

analyze_image(s) ==
    [verdict |-> ImageVerdict(Confidence(s)), confidence |-> Confidence(s)]

\* The images the scorer is tried on: the Laplacian variance and the
\* standard deviation of an 8-bit grayscale image (at most 127.5), on both
\* sides of the thresholds the specification names, and four sizes.
AllImages ==
    {[blur_score |-> b, noise |-> n, width |-> d[1], height |-> d[2]] :
        b \in {0, 1, 9, 40, 59, 60, 200},
        n \in {0, 10, 14, 15, 25, 127},
        d \in {<<200, 300>>, <<255, 1000>>, <<256, 256>>, <<1920, 1080>>}}

\* One call of analyze_image on an image of the pool.
Analyze(images) ==
    /\ \E s \in images :
        /\ image' = s
        /\ image_result' = analyze_image(s)
    /\ UNCHANGED <<shared, vocabulary_, idf_, pc, req, frame, response, api_vars>>

AnalyzeImage == Analyze(AllImages)

NextImage == AnalyzeImage

SpecImage == Init /\ [][NextImage]_vars

\* The whole range of the signals: the standard deviation of 8-bit gray
\* levels is at most 127.5, and the variance of the Laplacian is any number
\* from 0 up; every blur score up to MaxBlur and some far larger ones.
MAX_NOISE == 128

MaxBlur == 40

AllSignals ==
    {[blur_score |-> b, noise |-> n, width |-> 256, height |-> 256] :
        b \in 0..MaxBlur \cup {200, 1000, 100000}, n \in 0..MAX_NOISE}

AnalyzeSignals == Analyze(AllSignals)

\* The first image analysed.
NextSignals == image_result = NoImageResult /\ AnalyzeSignals

SpecSignals == Init /\ [][NextSignals]_vars

(***************************************************************************)
(* deepfake_check (backend/main.py)                                        *)
(***************************************************************************)
MAX_IMAGE_SIZE == 10485760

MIN_IMAGE_SIZE == 100

ALLOWED_IMAGE_TYPES == {"image/jpeg", "image/png", "image/jpg"}

\* A row of the scan_history table.
Row(type, verdict, confidence) ==
    [type |-> type, verdict |-> verdict, confidence |-> confidence]

\* The checks without the one on the smallest buffer.
ValidateNoMinimum(u) ==
    IF u.content_type \notin ALLOWED_IMAGE_TYPES THEN "Only JPEG/PNG images are allowed"
    ELSE IF ~u.readable THEN "Failed to read image file"
    ELSE IF u.size > MAX_IMAGE_SIZE THEN "Image too large (max 10MB)"
    ELSE ""

\* The checks before the analysis, in the order of the code: the detail of
\* the HTTPException(400) raised, "" when the upload passes them all.  A
\* content type of "" stands for a missing one.
Validate(u) ==
    IF u.content_type \notin ALLOWED_IMAGE_TYPES THEN "Only JPEG/PNG images are allowed"
    ELSE IF ~u.readable THEN "Failed to read image file"
    ELSE IF u.size > MAX_IMAGE_SIZE THEN "Image too large (max 10MB)"
    ELSE IF u.size < MIN_IMAGE_SIZE THEN "Invalid or corrupted image file"
    ELSE ""

\* The uploads: a declared type (missing, allowed, an image type that is not
\* allowed, not an image), a buffer length on both sides of both limits,
\* whether file.read() succeeds, whether PIL can open the bytes, the signals
\* of the image they hold, and whether the history insert succeeds.
AllContentTypes == {"", "image/jpeg", "image/png", "image/jpg", "image/gif", "text/plain"}

AllSizes == {0, MIN_IMAGE_SIZE - 1, MIN_IMAGE_SIZE, 5000, MAX_IMAGE_SIZE, MAX_IMAGE_SIZE + 1}

UploadImages ==
    {[blur_score |-> 0, noise |-> 127, width |-> 256, height |-> 256],
     [blur_score |-> 9, noise |-> 25, width |-> 256, height |-> 256],
     [blur_score |-> 200, noise |-> 10, width |-> 1920, height |-> 1080]}

AllUploads ==
    {[content_type |-> c, size |-> n, readable |-> r, decodable |-> d,
      signals |-> s, stored |-> h] :
        c \in AllContentTypes, n \in AllSizes, r \in BOOLEAN, d \in BOOLEAN,
        s \in UploadImages, h \in BOOLEAN}

DeepfakeCheck ==
    /\ \E u \in AllUploads :
        LET detail == Validate(u)
            result == analyze_image(u.signals)
        IN  /\ upload' = u
            /\ IF detail # ""
                 THEN /\ reply' = Rejected(400, detail)
                      /\ calls' = {}
                      /\ UNCHANGED <<image_vars, scan_history>>
                 ELSE IF ~u.decodable
                 THEN /\ reply' = Rejected(500, "Image analysis failed")
                      /\ calls' = {"analyze_image"}
                      /\ UNCHANGED <<image_vars, scan_history>>
                 ELSE /\ image' = u.signals
                      /\ image_result' = result
                      /\ calls' = {"analyze_image", "scan_history.insert"}
                      /\ scan_history' =
                            IF u.stored
                              THEN Append(scan_history,
                                          Row("deepfake", result.verdict, result.confidence))
                              ELSE scan_history
                      /\ reply' = Reply(200, "", result.verdict, result.confidence)
    /\ UNCHANGED <<shared, vocabulary_, idf_, pc, req, frame, response, news>>

\* The first upload the server is sent.
NextUpload == reply = NoReply /\ DeepfakeCheck

SpecUpload == Init /\ [][NextUpload]_vars

(***************************************************************************)
(* fake_news_check (backend/main.py)                                       *)
(***************************************************************************)
MIN_TEXT_LENGTH == 50

\* The characters of a word of the model.
WordLength(w) ==
    IF w = " " THEN 1 ELSE IF w = "the" THEN 3 ELSE IF w = "fire" THEN 4 ELSE 5

\* len(text)
CharLen(text) == SumSeq([i \in 1..Len(text) |-> WordLength(text[i])])

Repeat(w, n) == [i \in 1..n |-> w]

\* "if data.url and not text": the page is fetched only for a url without text.
Scrapes(n) == n.url # "" /\ n.text = <<>>

\* Lines 343-351: the text, or for a url without text what scrape_article
\* returns, or when that is empty what fetch_from_nytimes returns.
ResolveText(n) ==
    IF Scrapes(n)
      THEN IF n.page # <<>> THEN n.page ELSE n.abstract
      ELSE n.text

\* The collaborators lines 346-351 invoke.
Acquisition(n) ==
    IF Scrapes(n)
      THEN IF n.page # <<>> THEN {"scrape_article"}
                            ELSE {"scrape_article", "fetch_from_nytimes"}
      ELSE {}

\* model.predict(vec)[0]: the class of the larger probability.
Predict(n) == IF n.p_real > 100 - n.p_real THEN 1 ELSE 0

NewsVerdict(prediction) == IF prediction = 1 THEN "REAL" ELSE "FAKE"

\* The inputs: a text that is missing, short, one character under the
\* minimum, at the minimum, and white space of the minimum length; a url or
\* none; a page and a New York Times abstract that are missing, short or
\* long; whether the classifier raises; whether the history insert succeeds.
NewsTexts ==
    {<<>>, Fire, Repeat("flood", 9) \o Fire, Repeat("flood", 10),
     Repeat(" ", MIN_TEXT_LENGTH)}

NewsPages == {<<>>, Flood, Repeat("storm", 12)}

NewsAbstracts == {<<>>, <<"fire", "flood">>, Repeat("fire", 13)}

AllNews ==
    {[text |-> x, url |-> u, page |-> g, abstract |-> a, p_real |-> p,
      raises |-> e, stored |-> h] :
        x \in NewsTexts, u \in {"", "http://news"}, g \in NewsPages,
        a \in NewsAbstracts, p \in AllProbabilities, e \in BOOLEAN, h \in BOOLEAN}

FakeNewsCheck ==
    /\ \E n \in AllNews :
        LET text == ResolveText(n)
            verdict == NewsVerdict(Predict(n))
            confidence == MlProb(n)
        IN  /\ news' = n
            /\ IF n.text = <<>> /\ n.url = ""
                 THEN /\ reply' = Rejected(400, "Please provide either text or URL")
                      /\ calls' = {}
                      /\ UNCHANGED scan_history
                 ELSE IF text = <<>>
                 THEN /\ reply' = Rejected(400, "Could not extract article content from URL")
                      /\ calls' = Acquisition(n)
                      /\ UNCHANGED scan_history
                 ELSE IF CharLen(text) < MIN_TEXT_LENGTH
                 THEN /\ reply' = Rejected(400, "Text too short for reliable analysis (min 50 characters)")
                      /\ calls' = Acquisition(n)
                      /\ UNCHANGED scan_history
                 ELSE IF n.raises
                 THEN /\ reply' = Rejected(500, "Analysis failed")
                      /\ calls' = Acquisition(n) \cup {"classifier"}
                      /\ UNCHANGED scan_history
                 ELSE /\ reply' = Reply(200, "", verdict, confidence)
                      /\ calls' = Acquisition(n) \cup {"classifier", "scan_history.insert"}
                      /\ scan_history' =
                            IF n.stored
                              THEN Append(scan_history, Row("fake_news", verdict, confidence))
                              ELSE scan_history
    /\ UNCHANGED <<shared, vocabulary_, idf_, pc, req, frame, response, image_vars, upload>>

\* The first input the server is sent.
NextNews == reply = NoReply /\ FakeNewsCheck

SpecNews == Init /\ [][NextNews]_vars

(***************************************************************************)
(* Properties                                                              *)
(***************************************************************************)
\* The handler returned a JSON body.
Answered(t) == pc[t] = "done" /\ response[t].status = "ok"

\* The handler returned a body the fusion produced.
Scored(t) == Answered(t) /\ response[t].verdict # "UNKNOWN"

WhitespaceOnly(text) == Range(text) \subseteq {" "}

SourceFailed(answer) == answer.kind # "ok"

\* C1: for every request whose resolved text is not empty, whatever the
\* sources return (0 to 3 items each) and whatever the classifier says, the
\* verdict has a confidence within [0, 100], from a final_score within
\* [0, 1], and a label among REAL, FAKE, UNCERTAIN, UNKNOWN.
C1_ConfidenceInRange ==
    \A t \in Threads :
        Answered(t) /\ ~WhitespaceOnly(frame[t].content) =>
            /\ response[t].confidence \in 0..100
            /\ frame[t].final_score \in 0..100
            /\ response[t].verdict \in {"REAL", "FAKE", "UNCERTAIN", "UNKNOWN"}

\* C2: when one source fails (timeout, non-2xx answer, malformed payload)
\* and the other succeeds, the handler still returns a verdict, computed
\* from the items of the surviving source only; whichever source fails.
C2_SourceFailureIsolated ==
    \A t \in Threads :
        LET r == req[t]
            one_failed == /\ NYT_API_KEY /\ GUARDIAN_API_KEY
                          /\ SourceFailed(r.nyt) # SourceFailed(r.guardian)
            surviving == IF SourceFailed(r.nyt)
                           THEN fetch_guardian(TRUE, r.guardian).items
                           ELSE fetch_nytimes(TRUE, r.nyt).items
        IN  pc[t] \in {"done", "blocked"} /\ ~WhitespaceOnly(frame[t].content) /\ one_failed =>
                /\ Scored(t)
                /\ response[t].evidence = surviving

\* C3: the verdict is UNKNOWN with confidence 0 exactly when the resolved
\* text is empty or white space only: such a text with no url always gives
\* it, and a text that is not blank never does.
C3_UnknownIffBlank ==
    \A t \in Threads :
        pc[t] = "done" =>
            /\ response[t].verdict = "UNKNOWN" <=> WhitespaceOnly(frame[t].content)
            /\ response[t].verdict = "UNKNOWN" =>
                   response[t].status = "ok" /\ response[t].confidence = 0
            /\ req[t].url = "" /\ WhitespaceOnly(req[t].text) =>
                   response[t].status = "ok" /\ response[t].verdict = "UNKNOWN"

\* A request with a text of white space only and no url was answered UNKNOWN.
C3_Witness ==
    \E t \in Threads :
        /\ Answered(t)
        /\ req[t].url = "" /\ req[t].text = <<" ">>
        /\ response[t].verdict = "UNKNOWN" /\ response[t].confidence = 0

\* C4: the label is a function of final_score alone: REAL from 0.6 up,
\* UNCERTAIN from 0.35 up to 0.6, FAKE below 0.35; exactly 0.6 is REAL and
\* exactly 0.35 is UNCERTAIN; the three ranges cover every score and do not
\* overlap.
C4_LabelFromScore ==
    /\ \A t \in Threads :
        Scored(t) =>
            LET score == frame[t].final_score
                label == response[t].verdict
            IN  /\ score >= 60 => label = "REAL"
                /\ score >= 35 /\ score < 60 => label = "UNCERTAIN"
                /\ score < 35 => label = "FAKE"
                /\ response[t].confidence = score
    /\ Verdict(60) = "REAL" /\ Verdict(59) = "UNCERTAIN"
    /\ Verdict(35) = "UNCERTAIN" /\ Verdict(34) = "FAKE"

\* One 0.35-weight item passed the gate without bonus: final_score is
\* exactly 0.35 and the label UNCERTAIN.
C4_Witness ==
    \E t \in Threads :
        /\ Scored(t)
        /\ Weights(frame[t].evidence) = <<35>>
        /\ frame[t].final_score = 35
        /\ response[t].verdict = "UNCERTAIN"

\* C5: the bonus of 0.2 is added to final_score exactly when the
\* classifier's probability that the text is REAL is above 0.7; a text
\* rated fake with a probability above 0.7 gets no bonus.
C5_BonusIffProbablyReal ==
    \A t \in Threads :
        Scored(t) =>
            LET bonus == frame[t].final_score - frame[t].weight_score
            IN  /\ bonus \in {0, 20}
                /\ bonus = 20 <=> req[t].p_real > 70

\* C6: evidence_weight is the sum of the weights of all the items when the
\* similarity is above 0.25, and 0 when it is 0.25 or less; without evidence
\* the similarity is exactly 0; one 0.45 item and one 0.35 item passing the
\* gate without bonus give final_score 0.8, REAL, confidence 80.
C6_BinaryGate ==
    \A t \in Threads :
        Scored(t) =>
            LET f == frame[t]
            IN  /\ f.sim > 2500 => f.weight_score = SumSeq(Weights(f.evidence))
                /\ f.sim <= 2500 => f.weight_score = 0
                /\ f.evidence = <<>> => f.sim = 0
                /\ response[t].headline_similarity = f.sim
                /\ Weights(f.evidence) = <<45, 35>> /\ f.sim > 2500 /\ f.ml_prob <= 70 =>
                       /\ f.final_score = 80
                       /\ response[t].verdict = "REAL"
                       /\ response[t].confidence = 80

\* One 0.45 item and one 0.35 item passed the gate without bonus.
C6_Witness ==
    \E t \in Threads :
        /\ Scored(t)
        /\ Weights(frame[t].evidence) = <<45, 35>>
        /\ frame[t].sim > 2500
        /\ frame[t].ml_prob <= 70
        /\ response[t].confidence = 80

\* The confidence the specification gives an image: +40 for a blur variance
\* below 60, +30 for a noise below 15, +30 for a smaller side below 256,
\* within [0, 100].
ClaimedConfidence(s) ==
    Min(100, Max(0, (IF s.blur_score < 60 THEN 40 ELSE 0)
                    + (IF s.noise < 15 THEN 30 ELSE 0)
                    + (IF Min(s.width, s.height) < 256 THEN 30 ELSE 0)))

Analysed == image_result # NoImageResult

\* C7: the image confidence is the sum, within [0, 100], of +40 (blur
\* variance < 60), +30 (noise < 15) and +30 (smaller side < 256); blur 40,
\* noise 10, 200x300 give 100 and FAKE; blur 200, noise 25, 1920x1080 give 0
\* and REAL.
C7_AdditiveConfidence ==
    Analysed =>
        /\ image_result.confidence = ClaimedConfidence(image)
        /\ image = [blur_score |-> 40, noise |-> 10, width |-> 200, height |-> 300] =>
               image_result = [verdict |-> "FAKE", confidence |-> 100]
        /\ image = [blur_score |-> 200, noise |-> 25, width |-> 1920, height |-> 1080] =>
               image_result = [verdict |-> "REAL", confidence |-> 0]

\* C8: the image label is FAKE exactly when the image confidence is 60 or
\* more, and REAL otherwise; an image whose confidence is exactly 60 (as C7
\* gives it) is labelled FAKE.
C8_FakeFromSixty ==
    Analysed =>
        /\ image_result.verdict = "FAKE" <=> image_result.confidence >= 60
        /\ image_result.verdict \in {"FAKE", "REAL"}
        /\ ClaimedConfidence(image) = 60 => image_result.verdict = "FAKE"

\* What check_fake_news answers to r when no other request is handled
\* before it or with it.
AloneResponse(r) ==
    LET c == ResolveContent(r)
        nyt == fetch_nytimes(NYT_API_KEY, r.nyt)
        gdn == fetch_guardian(GUARDIAN_API_KEY, r.guardian)
        ev == nyt.items \o gdn.items
        docs == Documents(c, ev)
        counts == CountMatrix(docs, Vocabulary(docs))
    IN  IF WhitespaceOnly(c) THEN UnknownBody
        ELSE IF nyt.outcome = "blocked" THEN NoBody
        ELSE IF nyt.outcome = "raised" THEN ErrorBody
        ELSE IF gdn.outcome = "blocked" THEN NoBody
        ELSE IF gdn.outcome = "raised" THEN ErrorBody
        ELSE IF ev = <<>> THEN VerdictBody(ev, 0, MlProb(r))
        ELSE IF Vocabulary(docs) = <<>> THEN ErrorBody
        ELSE VerdictBody(ev, MaxSimilarity(TfidfRows(counts, IdfOf(counts))), MlProb(r))

AnswersAsAlone(t) == response[t] = AloneResponse(req[t])

C10_RequestsIsolated ==
    \A t \in Threads : pc[t] = "done" => AnswersAsAlone(t)

\* deepfake_check raised the HTTPException(400) of one of its checks.
Refused == reply.status = 400

BadType(u) == u.content_type \notin ALLOWED_IMAGE_TYPES

\* C11: an upload whose declared type is not an allowed image type, and an
\* upload whose buffer is shorter than 100 bytes, is refused with an
\* HTTPException(400) that says why; in every such request analyze_image is
\* not invoked and no scan_history row is written.
C11_RejectedBeforeAnalysis ==
    reply # NoReply /\ (BadType(upload) \/ (upload.readable /\ upload.size < 100)) =>
        /\ Refused
        /\ reply.detail \in {"Only JPEG/PNG images are allowed",
                             "Invalid or corrupted image file"}
        /\ BadType(upload) => reply.detail = "Only JPEG/PNG images are allowed"
        /\ calls = {}
        /\ image_result = NoImageResult
        /\ scan_history = <<>>

C11_Witness ==
    /\ Refused
    /\ ~BadType(upload)
    /\ upload.size = 99
    /\ reply.detail = "Invalid or corrupted image file"
    /\ scan_history = <<>>

\* The resolved text of the input is not empty and under 50 characters.
ShortText == ResolveText(news) # <<>> /\ CharLen(ResolveText(news)) < 50

\* C12: a resolved text shorter than 50 characters is a failure to acquire
\* content: the answer is the verdict UNKNOWN with confidence 0, not an
\* exception, and the classifier is not invoked on that text.
C12_ShortTextIsUnknown ==
    reply # NoReply /\ ShortText =>
        /\ reply.status = 200
        /\ reply.verdict = "UNKNOWN"
        /\ reply.confidence = 0
        /\ "classifier" \notin calls

\* C13: the page of a url is fetched only when the request has a url and no
\* text; when the request carries a text that is not empty, that text is the
\* resolved content that is scored, with or without a url, whatever the page
\* of that url holds.
C13_TextIsTheContent ==
    \A t \in Threads :
        pc[t] # "idle" /\ req[t].text # <<>> =>
            /\ frame[t].content = req[t].text
            /\ ResolveContent(req[t]) = req[t].text

\* C14: for every image whose blur variance is at least 0 and whose noise
\* is within [0, 128], the confidence min(100, floor((noise + 1000 /
\* (blur + 1)) / 20)) is an integer within [0, 56]; it never exceeds the
\* cut-off of 60, so analyze_image returns REAL and FAKE is unreachable.
C14_AlwaysReal ==
    Analysed /\ image.blur_score >= 0 /\ image.noise \in 0..128 =>
        /\ image_result.confidence = Confidence(image)
        /\ image_result.confidence \in 0..56
        /\ image_result.confidence <= FAKE_CUTOFF
        /\ image_result.verdict = "REAL"

C14_Witness ==
    /\ Analysed
    /\ image.blur_score = 0
    /\ image.noise = 128
    /\ image_result.confidence = 56
    /\ image_result.verdict = "REAL"

====
